---- MODULE Spec2Model ----
(***************************************************************************)
(* Model of the Antony PV calibration scripts: calibrate.py (trajectory    *)
(* calibration: exponential / linear capacity growth integrated against    *)
(* hourly irradiance, then mean / median reduction) and sol-val.py         *)
(* (ratio calibration).                                                    *)
(*                                                                         *)
(* Real numbers are modelled exactly as rationals <<num, den>> (den > 0,   *)
(* reduced).  The exponential law C_prev * exp(ln(C_curr/C_prev) * tau)    *)
(* equals C_prev^(1-tau) * C_curr^tau; with tau = i/D and capacities that  *)
(* are L-th powers (D divides L) it is an exact integer, so the model      *)
(* computes it without rounding.  A missing (None) irradiance sample is    *)
(* the marker Missing (irradiance values are never negative).              *)
(***************************************************************************)
EXTENDS Integers, Sequences, FiniteSets, TLC

\* ---------------------------------------------------------------- bounds
MaxN == 3
MaxBase == 3

\* ------------------------------------------------------------ arithmetic
Missing == -1

Abs(x) == IF x < 0 THEN -x ELSE x

RECURSIVE Gcd(_, _)
Gcd(a, b) == IF b = 0 THEN a ELSE Gcd(b, a % b)

RECURSIVE LcmUpTo(_)
LcmUpTo(n) == IF n <= 1 THEN 1
              ELSE LET m == LcmUpTo(n - 1) IN (m * n) \div Gcd(m, n)

\* exponent making every capacity an exact D-th power for D < MaxN
L == LcmUpTo(MaxN - 1)

\* rational a / b, b # 0, reduced with a positive denominator
MkRat(a, b) ==
  LET g == Gcd(Abs(a), Abs(b))
      s == IF b < 0 THEN -1 ELSE 1
  IN  <<(s * a) \div g, (s * b) \div g>>

RatEq(x, y) == x[1] * y[2] = y[1] * x[2]
RatLt(x, y) == x[1] * y[2] < y[1] * x[2]
RatLe(x, y) == x[1] * y[2] <= y[1] * x[2]
RatAdd(x, y) == MkRat(x[1] * y[2] + y[1] * x[2], x[2] * y[2])

Ok(k) == [ok |-> TRUE, k |-> k, err |-> "none"]
Err(m) == [ok |-> FALSE, k |-> <<0, 1>>, err |-> m]

\* ------------------------------------------------ growth laws, integrator
\* tau = i / (N - 1) if N > 1 else 0.0 : denominator of tau
TauD(N) == IF N > 1 THEN N - 1 ELSE 1

Tau(i, N) == IF N > 1 THEN MkRat(i, N - 1) ELSE MkRat(0, 1)

IntRoot(c, D) == CHOOSE r \in 1..c : r ^ D = c

\* growth running from C_curr back to C_prev
CapExpSwapped(cs, ce, i, N) ==
  LET D == TauD(N) IN IntRoot(cs, D) ^ i * IntRoot(ce, D) ^ (D - i)

\* C_prev * exp(k * tau), k = log(C_curr / C_prev), tau = i / D
CapExp(cs, ce, i, N) ==
  LET D == TauD(N) IN IntRoot(cs, D) ^ (D - i) * IntRoot(ce, D) ^ i

\* (C_prev + (C_curr - C_prev) * tau) * D
CapLinNum(cs, ce, i, N) == cs * (TauD(N) - i) + ce * i

\* sum over present samples of C_t * v   ( = 1000 * denom )
RECURSIVE DenExpFrom(_, _, _, _)
DenExpFrom(s, cs, ce, j) ==
  IF j > Len(s) THEN 0
  ELSE (IF s[j] = Missing THEN 0 ELSE CapExp(cs, ce, j - 1, Len(s)) * s[j])
       + DenExpFrom(s, cs, ce, j + 1)

\* sum over present samples of C_t * D * v   ( = 1000 * D * denom )
RECURSIVE DenLinFrom(_, _, _, _)
DenLinFrom(s, cs, ce, j) ==
  IF j > Len(s) THEN 0
  ELSE (IF s[j] = Missing THEN 0 ELSE CapLinNum(cs, ce, j - 1, Len(s)) * s[j])
       + DenLinFrom(s, cs, ce, j + 1)

\* number of present samples before position j
RECURSIVE PresentBefore(_, _)
PresentBefore(s, j) ==
  IF j <= 1 THEN 0
  ELSE (IF s[j - 1] = Missing THEN 0 ELSE 1) + PresentBefore(s, j - 1)

\* tau taken from the count of present samples instead of the raw index
RECURSIVE TausFromCount(_, _)
TausFromCount(s, j) ==
  IF j > Len(s) THEN <<>>
  ELSE (IF s[j] = Missing THEN <<>>
        ELSE <<[idx |-> j - 1, tau |-> Tau(PresentBefore(s, j), Len(s))]>>)
       \o TausFromCount(s, j + 1)

\* the tau the integration loop assigns to each present sample, keyed by its
\* raw position (enumerate index)
RECURSIVE TausFrom(_, _)
TausFrom(s, j) ==
  IF j > Len(s) THEN <<>>
  ELSE (IF s[j] = Missing THEN <<>>
        ELSE <<[idx |-> j - 1, tau |-> Tau(j - 1, Len(s))]>>)
       \o TausFrom(s, j + 1)

Taus(s) == TausFrom(s, 1)

RECURSIVE SumPresentFrom(_, _)
SumPresentFrom(s, j) ==
  IF j > Len(s) THEN 0
  ELSE (IF s[j] = Missing THEN 0 ELSE s[j]) + SumPresentFrom(s, j + 1)

\* get_annual_irradiance_series: raises when the list is empty
FetchOk(s) == Len(s) > 0

\* get_annual_irradiance_kwh_per_kwp: sum(v / 1000) over non-None samples
Annual(s) ==
  IF ~FetchOk(s) THEN Err("NoIrradiance")
  ELSE Ok(MkRat(SumPresentFrom(s, 1), 1000))

\* compute_K_exponential
KExp(cs, ce, e, s) ==
  IF cs <= 0 \/ ce <= 0 THEN Err("InvalidCapacity")
  ELSE IF e <= 0 THEN Err("InvalidEnergy")
  ELSE IF ~FetchOk(s) THEN Err("NoIrradiance")
  ELSE LET d == DenExpFrom(s, cs, ce, 1)
       IN  IF d <= 0 THEN Err("NonPositiveIntegral")
           ELSE Ok(MkRat(e * 1000, d))

\* compute_K_linear without its denom check (Python still raises on / 0.0)
KLinNoCheck(cs, ce, e, s) ==
  IF ~FetchOk(s) THEN Err("NoIrradiance")
  ELSE LET d == DenLinFrom(s, cs, ce, 1)
       IN  IF d = 0 THEN Err("ZeroDivisionError")
           ELSE Ok(MkRat(e * 1000 * TauD(Len(s)), d))

\* compute_K_linear
KLin(cs, ce, e, s) ==
  IF ~FetchOk(s) THEN Err("NoIrradiance")
  ELSE LET d == DenLinFrom(s, cs, ce, 1)
       IN  IF d <= 0 THEN Err("NonPositiveIntegral")
           ELSE Ok(MkRat(e * 1000 * TauD(Len(s)), d))

\* ------------------------------------------------- function-level inputs
PosCaps == {b ^ L : b \in 1..MaxBase}
FnCaps == {-5, 0} \cup PosCaps
FnEnergy == {1000}
Vals == {Missing, 0, 125, 1000}
Series(n) == UNION {[1..k -> Vals] : k \in 0..n}

VARIABLES fs, fcs, fce, fe, fpc, fkexp, fklin, fann, fdenE, fdenL,
          fcapE, fcapL, ftaus, fs2, fp, ftaus2

fvars == <<fs, fcs, fce, fe, fpc, fkexp, fklin, fann, fdenE, fdenL,
           fcapE, fcapL, ftaus, fs2, fp, ftaus2>>

\* calibrate.main: external register / irradiance data, the dicts it fills,
\* its loop position, the per-law K lists and the reduction results
VARIABLES ny, reg, irr, cap, energy, H, pc, yi, kexp, klin, kyears,
          avgExp, medExp, avgLin, medLin, err

mvars == <<ny, reg, irr, cap, energy, H, pc, yi, kexp, klin, kyears,
           avgExp, medExp, avgLin, medLin, err>>

\* the same loop body run over the years in an arbitrary order
VARIABLES ppc, pdone, pkexp, pklin, pmedExp, pmedLin

pvars == <<ppc, pdone, pkexp, pklin, pmedExp, pmedLin>>

\* sol-val.calibrate
VARIABLES rCloc, rCreg, rEreg, rEtr, rpc, rRcap, rNaive, rK, rerr

rvars == <<rCloc, rCreg, rEreg, rEtr, rpc, rRcap, rNaive, rK, rerr>>

\* the summary step of calibrate.main on given per-law K lists
VARIABLES dkexp, dklin, dpc, davgExp, dmedExp, davgLin, dmedLin

dvars == <<dkexp, dklin, dpc, davgExp, dmedExp, davgLin, dmedLin>>

ReduceDefault ==
  /\ dkexp = <<>>
  /\ dklin = <<>>
  /\ dpc = "idle"
  /\ davgExp = <<0, 1>>
  /\ dmedExp = <<0, 1>>
  /\ davgLin = <<0, 1>>
  /\ dmedLin = <<0, 1>>

FnDefault ==
  /\ fs = <<>>
  /\ fcs = 0
  /\ fce = 0
  /\ fe = 0
  /\ fpc = "idle"
  /\ fkexp = Err("none")
  /\ fklin = Err("none")
  /\ fann = Err("none")
  /\ fdenE = <<0, 1>>
  /\ fdenL = <<0, 1>>
  /\ fcapE = <<>>
  /\ fcapL = <<>>
  /\ ftaus = <<>>
  /\ fs2 = <<>>
  /\ fp = 0
  /\ ftaus2 = <<>>

MainDefault ==
  /\ ny = 0
  /\ reg = <<>>
  /\ irr = <<>>
  /\ cap = <<>>
  /\ energy = <<>>
  /\ H = <<>>
  /\ pc = "idle"
  /\ yi = 0
  /\ kexp = <<>>
  /\ klin = <<>>
  /\ kyears = <<>>
  /\ avgExp = <<0, 1>>
  /\ medExp = <<0, 1>>
  /\ avgLin = <<0, 1>>
  /\ medLin = <<0, 1>>
  /\ err = "none"

PermDefault ==
  /\ ppc = "idle"
  /\ pdone = {}
  /\ pkexp = <<>>
  /\ pklin = <<>>
  /\ pmedExp = <<0, 1>>
  /\ pmedLin = <<0, 1>>

RatioDefault ==
  /\ rCloc = 0
  /\ rCreg = 0
  /\ rEreg = 0
  /\ rEtr = 0
  /\ rpc = "idle"
  /\ rRcap = <<0, 1>>
  /\ rNaive = <<0, 1>>
  /\ rK = <<0, 1>>
  /\ rerr = "none"

FnInit ==
  /\ fs \in Series(MaxN)
  /\ fcs \in FnCaps
  /\ fce \in FnCaps
  /\ fe \in FnEnergy
  /\ fpc = "init"
  /\ fkexp = Err("none")
  /\ fklin = Err("none")
  /\ fann = Err("none")
  /\ fdenE = <<0, 1>>
  /\ fdenL = <<0, 1>>
  /\ fcapE = <<>>
  /\ fcapL = <<>>
  /\ ftaus = <<>>
  /\ fs2 = <<>>
  /\ fp = 0
  /\ ftaus2 = <<>>
  /\ MainDefault
  /\ PermDefault
  /\ RatioDefault
  /\ ReduceDefault

\* one call of each per-series function on the drawn inputs
Compute ==
  /\ fpc = "init"
  /\ fpc' = "computed"
  /\ fkexp' = KExp(fcs, fce, fe, fs)
  /\ fklin' = KLin(fcs, fce, fe, fs)
  /\ fann' = Annual(fs)
  \* the accumulated denom of each integration loop, when it runs
  /\ fdenE' = IF fcs > 0 /\ fce > 0 /\ fe > 0 /\ FetchOk(fs)
               THEN MkRat(DenExpFrom(fs, fcs, fce, 1), 1000)
               ELSE <<0, 1>>
  /\ fdenL' = IF FetchOk(fs)
               THEN MkRat(DenLinFrom(fs, fcs, fce, 1), 1000 * TauD(Len(fs)))
               ELSE <<0, 1>>
  /\ fcapE' = IF fcs > 0 /\ fce > 0
                THEN [j \in 1..Len(fs) |-> CapExp(fcs, fce, j - 1, Len(fs))]
                ELSE <<>>
  /\ fcapL' = [j \in 1..Len(fs) |->
                 MkRat(CapLinNum(fcs, fce, j - 1, Len(fs)), TauD(Len(fs)))]
  /\ ftaus' = Taus(fs)
  /\ UNCHANGED <<fs, fcs, fce, fe, fs2, fp, ftaus2>>
  /\ UNCHANGED <<mvars, pvars, rvars, dvars>>

\* the same series with the sample at position p replaced by None
MarkMissing ==
  /\ fpc = "computed"
  /\ \E p \in 1..Len(fs) :
       /\ fs[p] # Missing
       /\ fs2' = [fs EXCEPT ![p] = Missing]
       /\ fp' = p
       /\ ftaus2' = Taus([fs EXCEPT ![p] = Missing])
  /\ fpc' = "mark"
  /\ UNCHANGED <<fs, fcs, fce, fe, fkexp, fklin, fann, fdenE, fdenL, fcapE, fcapL, ftaus>>
  /\ UNCHANGED <<mvars, pvars, rvars, dvars>>

FnNext == Compute \/ MarkMissing

SpecFn == FnInit /\ [][FnNext]_<<mvars, fvars, pvars, rvars, dvars>>

\* ------------------------------------------------ calibrate.main, reduction
RECURSIVE SumRat(_)
SumRat(s) == IF s = <<>> THEN <<0, 1>> ELSE RatAdd(Head(s), SumRat(Tail(s)))

\* sum(K_list) / len(K_list)
Mean(s) == LET t == SumRat(s) IN MkRat(t[1], t[2] * Len(s))

RECURSIVE InsertRat(_, _)
InsertRat(x, s) ==
  IF s = <<>> THEN <<x>>
  ELSE IF RatLt(x, Head(s)) THEN <<x>> \o s
  ELSE <<Head(s)>> \o InsertRat(x, Tail(s))

\* sorted(K_list)
RECURSIVE SortRat(_)
SortRat(s) == IF s = <<>> THEN <<>> ELSE InsertRat(Head(s), SortRat(Tail(s)))

\* lower-middle element for even lengths
MedianLower(s) == SortRat(s)[((Len(s) - 1) \div 2) + 1]

\* sorted(K_list)[len(K_list) // 2]
Median(s) == SortRat(s)[(Len(s) \div 2) + 1]

\* also skipping years whose capacity did not grow
InputsValidGrowing(cp, cc, e) == cp > 0 /\ cc > cp /\ e > 0

\* if C_prev <= 0 or C_curr <= 0 or E_y <= 0: (missing data) continue
InputsValid(cp, cc, e) == cp > 0 /\ cc > 0 /\ e > 0

\* the loop body with the two laws' results swapped
YearBodySwapped(cp, cc, e, s) ==
  IF ~InputsValid(cp, cc, e)
  THEN [st |-> "skip", ke |-> <<0, 1>>, kl |-> <<0, 1>>, err |-> "none"]
  ELSE LET a == KExp(cp, cc, e, s)
           b == KLin(cp, cc, e, s)
       IN  IF ~a.ok
           THEN [st |-> "error", ke |-> <<0, 1>>, kl |-> <<0, 1>>, err |-> a.err]
           ELSE IF ~b.ok
           THEN [st |-> "error", ke |-> <<0, 1>>, kl |-> <<0, 1>>, err |-> b.err]
           ELSE [st |-> "ok", ke |-> b.k, kl |-> a.k, err |-> "none"]

\* one iteration of the trajectory loop for a year
YearBody(cp, cc, e, s) ==
  IF ~InputsValid(cp, cc, e)
  THEN [st |-> "skip", ke |-> <<0, 1>>, kl |-> <<0, 1>>, err |-> "none"]
  ELSE LET a == KExp(cp, cc, e, s)
           b == KLin(cp, cc, e, s)
       IN  IF ~a.ok
           THEN [st |-> "error", ke |-> <<0, 1>>, kl |-> <<0, 1>>, err |-> a.err]
           ELSE IF ~b.ok
           THEN [st |-> "error", ke |-> <<0, 1>>, kl |-> <<0, 1>>, err |-> b.err]
           ELSE [st |-> "ok", ke |-> a.k, kl |-> b.k, err |-> "none"]

\* the values interpolated into the message of each exception main can raise
MsgFields(kind) ==
  CASE kind = "NoRecord" -> {"year", "dataset"}
    [] kind = "NoIrradiance" -> {"year"}
    [] kind = "InvalidCapacity" -> {"year", "C_prev", "C_curr"}
    [] kind = "InvalidEnergy" -> {"year", "E"}
    [] kind = "NonPositiveIntegral" -> {"year"}
    [] OTHER -> {}

\* years START_YEAR .. END_YEAR abstracted as 0 .. ny; the loop runs 1 .. ny
NY == 2
MainCaps == {0} \cup {b * b : b \in 1..2}
MainEnergy == {0, 2}
RegVals == {[rec |-> FALSE, c |-> 0, e |-> 0]}
           \cup [rec : {TRUE}, c : MainCaps, e : MainEnergy]
MainSeries == {<<>>, <<Missing, 0>>, <<Missing, 125, 1000>>}

MainInit ==
  /\ ny = NY
  /\ reg \in [0..NY -> RegVals]
  /\ irr \in [1..NY -> MainSeries]
  /\ cap = <<>>
  /\ energy = <<>>
  /\ H = <<>>
  /\ pc = "fetch"
  /\ yi = 0
  /\ kexp = <<>>
  /\ klin = <<>>
  /\ kyears = <<>>
  /\ avgExp = <<0, 1>>
  /\ medExp = <<0, 1>>
  /\ avgLin = <<0, 1>>
  /\ medLin = <<0, 1>>
  /\ err = "none"
  /\ FnDefault
  /\ PermDefault
  /\ RatioDefault
  /\ ReduceDefault

\* get_antony_capacity_and_energy_year(y): raises when no record exists
FetchYear ==
  /\ pc = "fetch"
  /\ IF ~reg[yi].rec
     THEN /\ pc' = "aborted"
          /\ err' = "NoRecord"
          /\ UNCHANGED <<cap, energy, yi>>
     ELSE /\ cap' = cap @@ (yi :> reg[yi].c)
          /\ energy' = energy @@ (yi :> reg[yi].e)
          /\ IF yi = ny THEN pc' = "irr" /\ yi' = 1
                        ELSE pc' = "fetch" /\ yi' = yi + 1
          /\ UNCHANGED err
  /\ UNCHANGED <<ny, reg, irr, H, kexp, klin, kyears, avgExp, medExp, avgLin, medLin>>
  /\ UNCHANGED <<fvars, pvars, rvars, dvars>>

\* H[y] = get_annual_irradiance_kwh_per_kwp(y)
IrrYear ==
  /\ pc = "irr"
  /\ LET a == Annual(irr[yi]) IN
       IF ~a.ok
       THEN /\ pc' = "aborted"
            /\ err' = a.err
            /\ UNCHANGED <<H, yi>>
       ELSE /\ H' = H @@ (yi :> a.k)
            /\ IF yi = ny THEN pc' = "loop" /\ yi' = 1
                          ELSE pc' = "irr" /\ yi' = yi + 1
            /\ UNCHANGED err
  /\ UNCHANGED <<ny, reg, irr, cap, energy, kexp, klin, kyears, avgExp, medExp, avgLin, medLin>>
  /\ UNCHANGED <<fvars, pvars, rvars, dvars>>

\* the loop taking C_prev from the last year that produced a K
LoopYearStale ==
  /\ pc = "loop"
  /\ LET cp == IF kyears = <<>> THEN cap[yi - 1] ELSE cap[kyears[Len(kyears)]]
         r == YearBody(cp, cap[yi], energy[yi], irr[yi]) IN
       CASE r.st = "skip" ->
              /\ pc' = IF yi = ny THEN "reduce" ELSE "loop"
              /\ yi' = yi + 1
              /\ UNCHANGED <<kexp, klin, kyears, err>>
         [] r.st = "ok" ->
              /\ kexp' = Append(kexp, r.ke)
              /\ klin' = Append(klin, r.kl)
              /\ kyears' = Append(kyears, yi)
              /\ pc' = IF yi = ny THEN "reduce" ELSE "loop"
              /\ yi' = yi + 1
              /\ UNCHANGED err
         [] r.st = "error" ->
              /\ pc' = "aborted"
              /\ err' = r.err
              /\ UNCHANGED <<yi, kexp, klin, kyears>>
  /\ UNCHANGED <<ny, reg, irr, cap, energy, H, avgExp, medExp, avgLin, medLin>>
  /\ UNCHANGED <<fvars, pvars, rvars, dvars>>

\* one iteration of "for y in range(2018, 2025)"; an exception propagates
LoopYear ==
  /\ pc = "loop"
  /\ LET r == YearBody(cap[yi - 1], cap[yi], energy[yi], irr[yi]) IN
       CASE r.st = "skip" ->
              /\ pc' = IF yi = ny THEN "reduce" ELSE "loop"
              /\ yi' = yi + 1
              /\ UNCHANGED <<kexp, klin, kyears, err>>
         [] r.st = "ok" ->
              /\ kexp' = Append(kexp, r.ke)
              /\ klin' = Append(klin, r.kl)
              /\ kyears' = Append(kyears, yi)
              /\ pc' = IF yi = ny THEN "reduce" ELSE "loop"
              /\ yi' = yi + 1
              /\ UNCHANGED err
         [] r.st = "error" ->
              /\ pc' = "aborted"
              /\ err' = r.err
              /\ UNCHANGED <<yi, kexp, klin, kyears>>
  /\ UNCHANGED <<ny, reg, irr, cap, energy, H, avgExp, medExp, avgLin, medLin>>
  /\ UNCHANGED <<fvars, pvars, rvars, dvars>>

\* the two "if K_..._list:" summaries
Reduce ==
  /\ pc = "reduce"
  /\ pc' = "done"
  /\ avgExp' = IF Len(kexp) > 0 THEN Mean(kexp) ELSE avgExp
  /\ medExp' = IF Len(kexp) > 0 THEN Median(kexp) ELSE medExp
  /\ avgLin' = IF Len(klin) > 0 THEN Mean(klin) ELSE avgLin
  /\ medLin' = IF Len(klin) > 0 THEN Median(klin) ELSE medLin
  /\ UNCHANGED <<ny, reg, irr, cap, energy, H, yi, kexp, klin, kyears, err>>
  /\ UNCHANGED <<fvars, pvars, rvars, dvars>>

MainNext == FetchYear \/ IrrYear \/ LoopYear \/ Reduce

SpecTraj == MainInit /\ [][MainNext]_<<mvars, fvars, pvars, rvars, dvars>>

\* a reordered (or parallel) per-year map: each year's K computed from that
\* year's own inputs, the years taken in any order, once main has finished
\* after its fetch phases filled cap, energy and H
LoopReached ==
  pc \in {"loop", "reduce", "done"}
  \/ (pc = "aborted" /\ err \notin {"NoRecord", "NoIrradiance"})

PermYear ==
  /\ ppc \in {"idle", "loop"}
  /\ pc \in {"done", "aborted"}
  /\ LoopReached
  /\ \E y \in (1..ny) \ pdone :
       LET r == YearBody(cap[y - 1], cap[y], energy[y], irr[y])
           last == pdone \cup {y} = 1..ny
           ke == IF r.st = "ok" THEN Append(pkexp, r.ke) ELSE pkexp
           kl == IF r.st = "ok" THEN Append(pklin, r.kl) ELSE pklin
       IN  IF r.st = "error"
           THEN /\ ppc' = "aborted"
                /\ UNCHANGED <<pdone, pkexp, pklin, pmedExp, pmedLin>>
           ELSE /\ pdone' = pdone \cup {y}
                /\ pkexp' = ke
                /\ pklin' = kl
                /\ ppc' = IF last THEN "done" ELSE "loop"
                /\ pmedExp' = IF last /\ Len(ke) > 0 THEN Median(ke) ELSE pmedExp
                /\ pmedLin' = IF last /\ Len(kl) > 0 THEN Median(kl) ELSE pmedLin
  /\ UNCHANGED <<mvars, fvars, rvars, dvars>>

\* calibration years for the reordering check: every register record
\* present, capacities and energies that make years contribute or skip
NYIndep == 3
IndepRegVals == [rec : {TRUE}, c : {1, 4}, e : {0, 2}]
IndepSeries == {<<Missing, 0>>, <<Missing, 125, 1000>>}

IndepInit ==
  /\ ny = NYIndep
  /\ reg \in [0..NYIndep -> IndepRegVals]
  /\ irr \in [1..NYIndep -> IndepSeries]
  /\ cap = <<>>
  /\ energy = <<>>
  /\ H = <<>>
  /\ pc = "fetch"
  /\ yi = 0
  /\ kexp = <<>>
  /\ klin = <<>>
  /\ kyears = <<>>
  /\ avgExp = <<0, 1>>
  /\ medExp = <<0, 1>>
  /\ avgLin = <<0, 1>>
  /\ medLin = <<0, 1>>
  /\ err = "none"
  /\ FnDefault
  /\ PermDefault
  /\ RatioDefault
  /\ ReduceDefault

SpecIndep == IndepInit /\ [][MainNext \/ PermYear]_<<mvars, fvars, pvars, rvars, dvars>>

\* ------------------------------------------------------ sol-val.calibrate
RatioCloc == {0, 100, 200}
RatioCreg == {-10000, 0, 10000, 20000}
RatioEreg == {-5000, 0, 5000}
RatioEtr == {0, 60, 120}

\* Python float division: x / 0.0 raises ZeroDivisionError
PyDiv(x, y) ==
  IF y[1] = 0 THEN Err("ZeroDivisionError")
  ELSE Ok(MkRat(x[1] * y[2], x[2] * y[1]))

RatMul(x, y) == MkRat(x[1] * y[1], x[2] * y[2])

RatioInit ==
  /\ rCloc \in RatioCloc
  /\ rCreg \in RatioCreg
  /\ rEreg \in RatioEreg
  /\ rEtr \in RatioEtr
  /\ rpc = "start"
  /\ rRcap = <<0, 1>>
  /\ rNaive = <<0, 1>>
  /\ rK = <<0, 1>>
  /\ rerr = "none"
  /\ FnDefault
  /\ MainDefault
  /\ PermDefault
  /\ ReduceDefault

\* R_cap = p_ant / p_idf; e_ant_naive = R_cap * e_idf; K = e_ant / e_ant_naive
RatioCalibrate ==
  /\ rpc = "start"
  /\ LET r == PyDiv(<<rCloc, 1>>, <<rCreg, 1>>)
         n == RatMul(r.k, <<rEreg, 1>>)
         k == PyDiv(<<rEtr, 1>>, n)
     IN  IF ~r.ok
         THEN /\ rpc' = "aborted"
              /\ rerr' = r.err
              /\ UNCHANGED <<rRcap, rNaive, rK>>
         ELSE IF ~k.ok
         THEN /\ rpc' = "aborted"
              /\ rerr' = k.err
              /\ rRcap' = r.k
              /\ rNaive' = n
              /\ UNCHANGED rK
         ELSE /\ rpc' = "done"
              /\ rRcap' = r.k
              /\ rNaive' = n
              /\ rK' = k.k
              /\ UNCHANGED rerr
  /\ UNCHANGED <<rCloc, rCreg, rEreg, rEtr>>
  /\ UNCHANGED <<fvars, mvars, pvars, dvars>>

SpecRatio == RatioInit /\ [][RatioCalibrate]_<<mvars, fvars, pvars, rvars, dvars>>

\* ---------------------------------------- calibrate.main, summary step alone
MaxK == 4
ReduceExpVals == {<<1, 1>>, <<2, 1>>, <<3, 1>>, <<4, 1>>}
ReduceLinVals == {<<1, 1>>, <<5, 2>>}
KLists(V) == UNION {[1..n -> V] : n \in 1..MaxK}

ReduceInit ==
  /\ dkexp \in KLists(ReduceExpVals)
  /\ dklin \in KLists(ReduceLinVals)
  /\ dpc = "start"
  /\ davgExp = <<0, 1>>
  /\ dmedExp = <<0, 1>>
  /\ davgLin = <<0, 1>>
  /\ dmedLin = <<0, 1>>
  /\ FnDefault
  /\ MainDefault
  /\ PermDefault
  /\ RatioDefault

\* the two "if K_..._list:" summaries on the drawn lists
ReduceLists ==
  /\ dpc = "start"
  /\ dpc' = "done"
  /\ davgExp' = IF Len(dkexp) > 0 THEN Mean(dkexp) ELSE davgExp
  /\ dmedExp' = IF Len(dkexp) > 0 THEN Median(dkexp) ELSE dmedExp
  /\ davgLin' = IF Len(dklin) > 0 THEN Mean(dklin) ELSE davgLin
  /\ dmedLin' = IF Len(dklin) > 0 THEN Median(dklin) ELSE dmedLin
  /\ UNCHANGED <<dkexp, dklin>>
  /\ UNCHANGED <<mvars, fvars, pvars, rvars>>

SpecReduce == ReduceInit /\ [][ReduceLists]_<<mvars, fvars, pvars, rvars, dvars>>

\* ================================================================ claims

FnDone == fpc \in {"computed", "mark"}

\* C1: in the trajectory run, a year with invalid inputs or a failing
\* per-year computation is skipped and the batch goes on: the run never
\* aborts on one year's failure.
C1_NoYearAbortsBatch == pc # "aborted"

\* C2: when the trajectory run completes, the years contributing K entries
\* are exactly the years with C_prev > 0, C_curr > 0 and E_y > 0, each once
\* and in order; in particular a year with C_prev = 0 contributes nothing.
C2_SkippedYearsAbsent ==
  pc = "done" =>
    /\ kyears = SelectSeq([i \in 1..ny |-> i],
                          LAMBDA y : cap[y - 1] > 0 /\ cap[y] > 0 /\ energy[y] > 0)
    /\ Len(kexp) = Len(kyears)
    /\ Len(klin) = Len(kyears)
    /\ \A y \in 1..ny : cap[y - 1] = 0 => \A j \in DOMAIN kyears : kyears[j] # y

C2_Witness ==
  pc = "done" /\ Len(kexp) > 0 /\ \E y \in 1..ny : cap[y - 1] = 0

\* m is the upper-middle element of s: at most len//2 elements are below it
\* and more than len//2 are at most it
UpperMid(m, s) ==
  /\ \E i \in DOMAIN s : s[i] = m
  /\ Cardinality({i \in DOMAIN s : RatLt(s[i], m)}) <= Len(s) \div 2
  /\ Cardinality({i \in DOMAIN s : RatLe(s[i], m)}) > Len(s) \div 2

\* C3: the median of each per-law list is the element at index len//2 of the
\* ascending-sorted list (upper middle), the mean is sum/len, and each law's
\* statistics are computed from that law's list only.
C3_MedianUpperMiddle ==
  dpc = "done" =>
    /\ UpperMid(dmedExp, dkexp)
    /\ UpperMid(dmedLin, dklin)
    /\ RatEq(<<davgExp[1] * Len(dkexp), davgExp[2]>>, SumRat(dkexp))
    /\ RatEq(<<davgLin[1] * Len(dklin), davgLin[2]>>, SumRat(dklin))

C3_Witness ==
  /\ dpc = "done"
  /\ Len(dkexp) = 4
  /\ {dkexp[i] : i \in 1..4} = ReduceExpVals
  /\ dkexp[1] # <<1, 1>>

\* C4: computing K with C_start <= 0 or C_end <= 0 fails with an invalid
\* capacity error under both growth laws.
C4_InvalidCapacityRejected ==
  FnDone /\ (fcs <= 0 \/ fce <= 0) =>
    /\ ~fkexp.ok /\ fkexp.err = "InvalidCapacity"
    /\ ~fklin.ok /\ fklin.err = "InvalidCapacity"

\* C5: a K computed successfully (either law) is strictly positive and
\* finite; a non-positive integrated denominator is an error.
C5_KPositive ==
  FnDone =>
    /\ fkexp.ok => fkexp.k[1] > 0 /\ fkexp.k[2] > 0
    /\ fklin.ok => fklin.k[1] > 0 /\ fklin.k[2] > 0
    /\ FetchOk(fs) /\ fdenL[1] <= 0 => fklin.err = "NonPositiveIntegral"
    /\ fcs > 0 /\ fce > 0 /\ FetchOk(fs) /\ fdenE[1] <= 0
         => fkexp.err = "NonPositiveIntegral"

C5_Witness == FnDone /\ fkexp.ok /\ fklin.ok /\ fcs # fce

TauMatch ==
  \A j \in DOMAIN ftaus2 :
    \E k \in DOMAIN ftaus :
      /\ ftaus[k].idx = ftaus2[j].idx
      /\ RatEq(ftaus[k].tau, ftaus2[j].tau)

\* with a constant 1000 W/m2 series and C_start = C_end = C, the integral
\* over N samples is C * N for both laws
ConstantSeriesIntegral ==
  (FnDone /\ fcs = fce /\ fcs > 0 /\ Len(fs) > 0
   /\ \A j \in 1..Len(fs) : fs[j] = 1000)
  => /\ fdenE = <<fcs * Len(fs), 1>>
     /\ fdenL = <<fcs * Len(fs), 1>>

\* C6: tau of a present sample is i/(N-1) at its raw index, so marking other
\* samples missing (None in place, N unchanged) never changes it; and the
\* constant 1000 W/m2 series with C_start = C_end = C integrates to C*N.
C6_TauUnaffectedByMarking ==
  /\ fpc = "mark" => TauMatch
  /\ ConstantSeriesIntegral

C6_Witness ==
  /\ fpc = "mark"
  /\ fp = 1
  /\ Len(fs) = 3
  /\ \A j \in 1..3 : fs[j] = 1000
  /\ fcs = fce /\ fcs > 0

\* C7: the annual irradiance is the sum of value/1000 over present samples,
\* and a series with no usable sample (empty or all None) is an error.
C7_AnnualIrradiance ==
  FnDone =>
    /\ fann.ok => RatEq(fann.k, MkRat(SumPresentFrom(fs, 1), 1000))
    /\ (\A j \in 1..Len(fs) : fs[j] = Missing) => ~fann.ok

\* C8: ratio calibration computes R_cap = C_loc/C_region, naive = R_cap *
\* E_region, K = E_trusted/naive, and fails when C_region <= 0 or naive <= 0.
C8_RatioCalibration ==
  rpc \in {"done", "aborted"} =>
    /\ rCreg <= 0 => rpc = "aborted"
    /\ rpc = "done" =>
         /\ RatEq(rRcap, MkRat(rCloc, rCreg))
         /\ RatEq(rNaive, MkRat(rCloc * rEreg, rCreg))
         /\ rNaive[1] > 0
         /\ RatEq(rK, MkRat(rEtr * rNaive[2], rNaive[1]))

\* C9: both laws meet C_start at tau = 0 and C_end at tau = 1, and are
\* monotone in tau (increasing, decreasing or constant with C_end vs C_start).
C9_GrowthBoundaryMonotone ==
  FnDone /\ fcs > 0 /\ fce > 0 /\ Len(fs) > 0 =>
    /\ fcapE[1] = fcs
    /\ RatEq(fcapL[1], <<fcs, 1>>)
    /\ Len(fs) > 1 => fcapE[Len(fs)] = fce /\ RatEq(fcapL[Len(fs)], <<fce, 1>>)
    /\ \A j \in 1..(Len(fs) - 1) :
         /\ fce > fcs => fcapE[j] < fcapE[j + 1] /\ RatLt(fcapL[j], fcapL[j + 1])
         /\ fce < fcs => fcapE[j] > fcapE[j + 1] /\ RatLt(fcapL[j + 1], fcapL[j])
         /\ fce = fcs => fcapE[j] = fcapE[j + 1] /\ RatEq(fcapL[j], fcapL[j + 1])

C9_Witness ==
  FnDone /\ Len(fs) = MaxN /\ 0 < fcs /\ fcs < fce

BagOf(s) == [x \in {s[i] : i \in DOMAIN s} |->
               Cardinality({i \in DOMAIN s : s[i] = x})]

\* C10: running the loop body over the years in any order gives the same
\* outcome, the same multisets of K values and the same medians.
C10_OrderIndependent ==
  pc \in {"done", "aborted"} /\ ppc \in {"done", "aborted"} =>
    /\ (pc = "done") = (ppc = "done")
    /\ pc = "done" =>
         /\ BagOf(kexp) = BagOf(pkexp)
         /\ BagOf(klin) = BagOf(pklin)
         /\ Len(kexp) > 0 => RatEq(medExp, pmedExp) /\ RatEq(medLin, pmedLin)

C10_Witness ==
  /\ pc = "done" /\ ppc = "done"
  /\ Len(kexp) = 3
  /\ ~RatEq(kexp[1], kexp[2]) /\ ~RatEq(kexp[2], kexp[3])
  /\ ~RatEq(kexp[1], kexp[3])
  /\ pkexp # kexp

\* C11: after every iteration K_exp_list and K_lin_list have equal length
\* and position j of both holds the K of the same year, the j-th year with
\* C_prev, C_curr, E_y > 0 among the years processed so far, ascending.
C11_ListsAligned ==
  /\ kyears = IF LoopReached
              THEN SelectSeq([i \in 1..(yi - 1) |-> i],
                     LAMBDA y : cap[y - 1] > 0 /\ cap[y] > 0 /\ energy[y] > 0)
              ELSE <<>>
  /\ Len(kexp) = Len(kyears)
  /\ Len(klin) = Len(kyears)
  /\ \A j \in 1..(Len(kyears) - 1) : kyears[j] < kyears[j + 1]
  /\ \A j \in DOMAIN kyears :
       LET y == kyears[j] IN
         /\ kexp[j] = KExp(cap[y - 1], cap[y], energy[y], irr[y]).k
         /\ klin[j] = KLin(cap[y - 1], cap[y], energy[y], irr[y]).k

C11_Witness == Len(kyears) = 2 /\ ~RatEq(kexp[1], kexp[2])

\* the year and the quantities each failure is about
NeededFields(kind) ==
  CASE kind = "InvalidCapacity" -> {"year", "C_prev", "C_curr"}
    [] kind = "InvalidEnergy" -> {"year", "E"}
    [] kind = "NonPositiveIntegral" -> {"year", "denom"}
    [] OTHER -> {"year"}

\* C12: every error raised by the trajectory calibration carries the
\* offending year and the quantities involved in its message.
C12_ErrorsCarryContext ==
  pc = "aborted" => NeededFields(err) \subseteq MsgFields(err)

====
